---- MODULE Spec2Model ----
(***************************************************************************)
(* A model of package dal (github.com/viemacs/dal): the Model type, the    *)
(* process-wide connection registry, the batched transactional write       *)
(* (Create / Update), Read, SQL, Cleanup and DBInfo, as they are written   *)
(* in the current revision of dal.go (src/unnamed/part_002, lines 1-261),  *)
(* together with the backend they talk to: one MySQL table                 *)
(* user(id int primary key, name varchar(64)).                             *)
(***************************************************************************)
EXTENDS Integers, Sequences, FiniteSets, TLC

(***************************************************************************)
(* Bounds of the model.                                                    *)
(***************************************************************************)
MaxId == 2        \* identifiers written and stored are 1..MaxId
MaxLen == 2       \* longest slice handed to Create / Update
LargeBatch == 40000   \* a BatchSize above valuesLimit / 2
MaxFields == 2    \* most fields of the record types handed to parseValue

(***************************************************************************)
(* Program constants.                                                      *)
(***************************************************************************)
valuesLimit == 65535       \* 1<<16 - 1, placeholders per statement
DefaultBatchSize == 4096   \* 1 << 12

driverName == "mysql"

Ids == 1..MaxId
Names == {"a", "b"}
NoRow == "<absent>"
Invalid == "<invalid reflect.Value>"

Min(a, b) == IF a < b THEN a ELSE b

(***************************************************************************)
(* fmt.Sprintf("%v", v) of an int field and the backend's conversion of a  *)
(* decimal string bound to an int column.  String fields print as          *)
(* themselves.                                                             *)
(***************************************************************************)
Digits == <<"0", "1", "2", "3", "4", "5", "6", "7", "8", "9">>

RECURSIVE Itoa(_)
Itoa(n) == IF n < 10 THEN Digits[n + 1] ELSE Itoa(n \div 10) \o Digits[(n % 10) + 1]

IsNumeric(s) == \E n \in 0..(MaxId + 10) : Itoa(n) = s

Atoi(s) == CHOOSE n \in 0..(MaxId + 10) : Itoa(n) = s

(***************************************************************************)
(* Record types.  A type is the sequence of its fields; a field has a      *)
(* name, a `field` tag ("" when absent), a kind, whether it is embedded    *)
(* (anonymous), and for a struct the sequence of its own fields.           *)
(***************************************************************************)
Leaf(name, tag, kind) ==
    [name |-> name, tag |-> tag, kind |-> kind, embedded |-> FALSE, sub |-> <<>>]

Struct(name, embedded, sub) ==
    [name |-> name, tag |-> "", kind |-> "struct", embedded |-> embedded, sub |-> sub]

\* type T struct { ID int `field:"id"`; Name string `field:"name"` }
TypeT == <<Leaf("ID", "id", "int"), Leaf("Name", "name", "string")>>

\* type key struct { ID int `field:"id"` }
\* type N struct { key; Name string `field:"name"` }
TypeN == <<Struct("key", TRUE, <<Leaf("ID", "id", "int")>>),
           Leaf("Name", "name", "string")>>

\* type info struct { Name string `field:"name"` }
\* type M struct { ID int `field:"id"`; Info info }
TypeM == <<Leaf("ID", "id", "int"),
           Struct("Info", FALSE, <<Leaf("Name", "name", "string")>>)>>

RecordTypes == {TypeT, TypeN}

\* The record types Test_write is run with.
TestTypes == {TypeT, TypeN, TypeM}

(***************************************************************************)
(* parseValue, first part: the depth-first walk over the fields.  Each     *)
(* leaf yields its name, its tag (the name when the tag is empty), its     *)
(* kind, its depth and whether every struct on the way to it is embedded.  *)
(***************************************************************************)
RECURSIVE parse(_, _, _)
parse(v, depth, promoted) ==
    IF v = <<>> THEN <<>>
    ELSE LET f == Head(v)
             here == IF f.kind = "struct"
                     THEN parse(f.sub, depth + 1, promoted /\ f.embedded)
                     ELSE <<[field |-> f.name,
                             tag |-> IF f.tag = "" THEN f.name ELSE f.tag,
                             kind |-> f.kind,
                             depth |-> depth,
                             promoted |-> promoted]>>
         IN here \o parse(Tail(v), depth, promoted)

Leaves(tp) == parse(tp, 0, TRUE)

fieldsOf(tp) == [u \in 1..Len(Leaves(tp)) |-> Leaves(tp)[u].field]

\* The tags with every tag met before left out.
RECURSIVE Distinct(_)
Distinct(ss) ==
    IF ss = <<>> THEN <<>>
    ELSE LET front == Distinct(SubSeq(ss, 1, Len(ss) - 1))
             last == ss[Len(ss)]
         IN IF \E u \in 1..Len(front) : front[u] = last THEN front
            ELSE Append(front, last)

tagsOfDistinct(tp) == Distinct([u \in 1..Len(Leaves(tp)) |-> Leaves(tp)[u].tag])

tagsOf(tp) == [u \in 1..Len(Leaves(tp)) |-> Leaves(tp)[u].tag]

(***************************************************************************)
(* A record value is the tuple of its leaf values in depth-first order.    *)
(* reflect.Value.FieldByName finds a field by name among the fields of the *)
(* struct and of its embedded structs, the shallowest depth winning; a     *)
(* name found twice at that depth, or not at all, gives the zero Value.    *)
(***************************************************************************)
FieldByName(tp, rec, name) ==
    LET ls == Leaves(tp)
        cand == {u \in 1..Len(ls) : ls[u].field = name /\ ls[u].promoted}
        best == {u \in cand : \A w \in cand : ls[u].depth <= ls[w].depth}
    IN IF Cardinality(best) = 1
       THEN [ok |-> TRUE, pos |-> CHOOSE u \in best : TRUE]
       ELSE [ok |-> FALSE, pos |-> 0]

\* fmt.Sprintf("%v", row.FieldByName(fields[u]))
Sprintv(tp, rec, name) ==
    LET f == FieldByName(tp, rec, name)
    IN IF ~f.ok THEN Invalid
       ELSE IF Leaves(tp)[f.pos].kind = "int" THEN Itoa(rec[f.pos])
       ELSE rec[f.pos]

(***************************************************************************)
(* parseValue, second part: the statement template and the placeholder     *)
(* group.  The template is kept as the text before and after the %s verb.  *)
(***************************************************************************)
RECURSIVE Join(_, _)
Join(ss, sep) ==
    IF ss = <<>> THEN ""
    ELSE IF Len(ss) = 1 THEN ss[1]
    ELSE ss[1] \o sep \o Join(Tail(ss), sep)

\* The switch on mode: both modes given the insert-ignore template.
TemplateIgnoreOnly(table, tags, updates, mode) ==
    IF mode \in {"Create", "Update"}
    THEN [pre |-> "insert ignore into " \o table \o "(" \o Join(tags, ",")
                    \o ") values ",
          post |-> ";"]
    ELSE [pre |-> "", post |-> ""]

\* The switch on mode: the Update template without its update clause.
TemplateNoClause(table, tags, updates, mode) ==
    IF mode = "Create"
    THEN [pre |-> "insert ignore into " \o table \o "(" \o Join(tags, ",")
                    \o ") values ",
          post |-> ";"]
    ELSE IF mode = "Update"
    THEN [pre |-> "insert into " \o table \o "(" \o Join(tags, ",")
                    \o ") values ",
          post |-> ";"]
    ELSE [pre |-> "", post |-> ""]

Template(table, tags, updates, mode) ==
    IF mode = "Create"
    THEN [pre |-> "insert ignore into " \o table \o "(" \o Join(tags, ",")
                    \o ") values ",
          post |-> ";"]
    ELSE IF mode = "Update"
    THEN [pre |-> "insert into " \o table \o "(" \o Join(tags, ",")
                    \o ") values ",
          post |-> " on duplicate key update " \o Join(updates, ",") \o ";"]
    ELSE [pre |-> "", post |-> ""]

parseValue(tp, table, mode) ==
    LET fields == fieldsOf(tp)
        tags == tagsOf(tp)
        placeholders == [u \in 1..Len(tags) |-> "?"]
        updates == [u \in 1..Len(tags) |-> tags[u] \o "=values(" \o tags[u] \o ")"]
    IN [fields |-> fields,
        tags |-> tags,
        placeholder |-> "(" \o Join(placeholders, ",") \o ")",
        query |-> Template(table, tags, updates, mode)]

\* fmt.Sprintf(querief, arg): the template with its one %s verb substituted.
SprintfQuery(query, arg) == query.pre \o arg \o query.post

(***************************************************************************)
(* The chunk size of write.                                                *)
(***************************************************************************)
ChunkStepBatchOnly(batchSize, numFields) == batchSize

ChunkStepOne(batchSize, numFields) == 1

ChunkStep(batchSize, numFields) ==
    LET size == valuesLimit \div numFields
    IN IF size < batchSize THEN size ELSE batchSize

\* params of the chunk: row-major, fields in descriptor order.
RECURSIVE ChunkParams(_, _, _, _, _)
ChunkParams(tp, fields, values, j, last) ==
    IF j > last THEN <<>>
    ELSE [u \in 1..Len(fields) |-> Sprintv(tp, values[j], fields[u])]
         \o ChunkParams(tp, fields, values, j + 1, last)

(***************************************************************************)
(* State.                                                                  *)
(*   model        the Model value the callers share (exported fields, plus *)
(*                rows)                                                    *)
(*   connections  the package-level registry, key -> handle                *)
(*   pools        the pools sql.Open has created, in order; a handle is    *)
(*                an index into it                                         *)
(*   table        the committed contents of table user                     *)
(*   schema       the tables the database has: user, or none               *)
(*   frame        per goroutine: the call in progress, its receiver copy,  *)
(*                arguments, locals, position and result; `before` is the  *)
(*                length of Model.Records when Read was called, `ld` the   *)
(*                slice an append has loaded and not yet stored back,      *)
(*                `raced` whether another goroutine has stored to the      *)
(*                Model's rows or Records since this Read emptied rows     *)
(*   test         the position and the locals of Test_write, when it is    *)
(*                the caller; `records` and `fault` are Model.Records as   *)
(*                the first checkRead saw it and whether the backend       *)
(*                failed in a call made so far                             *)
(***************************************************************************)
VARIABLES model, connections, pools, table, schema, frame, test

vars == <<model, connections, pools, table, schema, frame, test>>

(***************************************************************************)
(* The backend: table user(id int primary key, name varchar(64)).  A table *)
(* state maps every identifier to its name, or to NoRow.                   *)
(***************************************************************************)
TableName == "user"
Columns == <<"id", "name">>

EmptyTable == [k \in Ids |-> NoRow]

ColumnSet == {Columns[c] : c \in 1..Len(Columns)}

\* The value bound to column col in group g of a statement over cols.
ParamOf(cols, params, g, col) ==
    LET u == CHOOSE w \in 1..Len(cols) : cols[w] = col
    IN params[(g - 1) * Len(cols) + u]

\* The text of an insert statement on table user over cols with `groups`
\* groups of Len(cols) positional markers, as the server's parser reads it.
InsertText(verb, cols, groups, tail) ==
    verb \o TableName \o "(" \o Join(cols, ",") \o ") values "
         \o Join([g \in 1..groups |->
                    "(" \o Join([u \in 1..Len(cols) |-> "?"], ",") \o ")"], ",")
         \o tail

OnDuplicateText(us) ==
    " on duplicate key update "
      \o Join([u \in 1..Len(us) |-> us[u] \o "=values(" \o us[u] \o ")"], ",")

\* The assignment lists an `on duplicate key update` clause over cols can hold.
UpdateLists(cols) ==
    UNION {[1..n -> {cols[u] : u \in 1..Len(cols)}] : n \in 1..Len(cols)}

\* What the server makes of a statement text sent with `groups` rows over
\* cols: insert-ignore, insert with an update clause over some columns, or a
\* text it does not accept.
ParseStmt(text, cols, groups) ==
    IF text = InsertText("insert ignore into ", cols, groups, ";")
    THEN [kind |-> "ignore", updates |-> {}]
    ELSE IF \E us \in UpdateLists(cols) :
              text = InsertText("insert into ", cols, groups, OnDuplicateText(us) \o ";")
    THEN LET us == CHOOSE w \in UpdateLists(cols) :
                     text = InsertText("insert into ", cols, groups,
                                       OnDuplicateText(w) \o ";")
         IN [kind |-> "update", updates |-> {us[u] : u \in 1..Len(us)}]
    ELSE [kind |-> "rejected", updates |-> {}]

\* The server rejects the statement text at prepare.
PrepareRejects(tbl, cols, groups) ==
    \/ tbl \notin schema
    \/ groups = 0
    \/ Len(cols) = 0
    \/ groups * Len(cols) > valuesLimit
    \/ \E u \in 1..Len(cols) : cols[u] \notin ColumnSet
    \/ \E u, w \in 1..Len(cols) : u # w /\ cols[u] = cols[w]
    \/ "id" \notin {cols[u] : u \in 1..Len(cols)}

\* The server rejects the bound values at execute.
ExecRejects(cols, params, groups) ==
    \/ Len(params) # groups * Len(cols)      \* one argument per marker
    \/ \E g \in 1..groups :
        \/ ~IsNumeric(ParamOf(cols, params, g, "id"))
        \/ IsNumeric(ParamOf(cols, params, g, "id"))
             /\ Atoi(ParamOf(cols, params, g, "id")) \notin Ids

NameOf(cols, params, g) ==
    IF "name" \in {cols[u] : u \in 1..Len(cols)}
    THEN ParamOf(cols, params, g, "name")
    ELSE ""

\* One executed insert statement applied to a table state, group by group;
\* the result is the new table state and the affected-row count: 1 for an
\* inserted row, 0 for a row ignored or left as it was, 2 for a row updated.
RECURSIVE ApplyStmt(_, _, _, _, _, _)
ApplyStmt(t, how, cols, params, g, groups) ==
    IF g > groups THEN [t |-> t, n |-> 0]
    ELSE LET id == Atoi(ParamOf(cols, params, g, "id"))
             nm == NameOf(cols, params, g)
             upd == IF how.kind = "update" /\ "name" \in how.updates THEN nm ELSE t[id]
             one == IF t[id] = NoRow
                    THEN [t |-> [t EXCEPT ![id] = nm], n |-> 1]
                    ELSE IF how.kind = "ignore" \/ t[id] = upd
                    THEN [t |-> t, n |-> 0]
                    ELSE [t |-> [t EXCEPT ![id] = upd], n |-> 2]
             rest == ApplyStmt(one.t, how, cols, params, g + 1, groups)
         IN [t |-> rest.t, n |-> one.n + rest.n]

\* The statements a transaction has executed, applied in order.
RECURSIVE ApplyLog(_, _)
ApplyLog(t, log) ==
    IF log = <<>> THEN t
    ELSE ApplyLog(ApplyStmt(t, ParseStmt(log[1].text, log[1].cols, log[1].groups),
                            log[1].cols, log[1].params, 1, log[1].groups).t,
                  Tail(log))

\* select <cols> from user: the rows in primary-key order.
RECURSIVE SelectFrom(_, _, _)
SelectFrom(t, cols, k) ==
    IF k > MaxId THEN <<>>
    ELSE (IF t[k] = NoRow THEN <<>>
          ELSE <<[c \in 1..Len(cols) |->
                    IF cols[c] = "id" THEN [kind |-> "int", int |-> k, str |-> ""]
                    ELSE [kind |-> "string", int |-> 0, str |-> t[k]]]>>)
         \o SelectFrom(t, cols, k + 1)

QueryRejects(tbl, cols) ==
    \/ tbl \notin schema
    \/ Len(cols) = 0
    \/ \E c \in 1..Len(cols) : cols[c] \notin ColumnSet

Procs == {1, 2}

Drivers == {driverName, "postgres"}
GoodDSN == "test@tcp(localhost)/test"
OtherDSN == "test@tcp(localhost)/log"
BadDSN == "%"
DSNs == {"", GoodDSN, OtherDSN, BadDSN}
\* Negative, zero (the default), splitting a slice of MaxLen records, and
\* above the parameter ceiling.
BatchSizes == ((-1)..(MaxLen - 1)) \cup {LargeBatch}

\* mysql.ParseDSN rejects the data source name, so sql.Open returns an error.
OpenRejects(dsn) == dsn = BadDSN

WriteOps == {"Create", "Update"}

\* The slices of at most maxLen records with the given names.
Slices(maxLen, names) == UNION {[1..n -> Ids \X names] : n \in 0..maxLen}

\* What a caller hands to Create / Update: a slice of records of one type,
\* or a value that is no slice.
Inputs(types, maxLen, names) ==
    {[slice |-> TRUE, tp |-> tp, elems |-> v] :
        tp \in types, v \in Slices(maxLen, names)}
    \cup {[slice |-> FALSE, tp |-> TypeT, elems |-> <<>>]}

\* Slices of struct{}: a record type with no column.
TypeE == <<>>

EmptyInputs ==
    {[slice |-> TRUE, tp |-> TypeE, elems |-> [j \in 1..n |-> <<>>]] : n \in 1..MaxLen}

WriteInputs == Inputs({TypeT}, MaxLen, Names) \cup EmptyInputs

\* The inputs of the callers that exercise every operation.
FewInputs == Inputs(RecordTypes, 1, {"a"})

ColumnLists == {<<"id", "name">>, <<"name", "id">>, <<"id">>}

\* The statements handed to SQL: the two of Test_write, and a delete.  The
\* test quotes the name of the table it drops; the server reads the same
\* name.
CreateTable == "create table user (id int primary key, name varchar(64));"
DropTable == "drop table user;"
DeleteAll == "delete from user;"

SQLQueries == {DeleteAll}

\* conn.Exec(query) on the database: whether the server rejects it, and the
\* table and the schema it leaves.
ExecSQL(query, t, sch) ==
    IF query = CreateTable
    THEN [rejected |-> TableName \in sch, table |-> EmptyTable,
          schema |-> sch \cup {TableName}]
    ELSE IF query = DropTable
    THEN [rejected |-> TableName \notin sch, table |-> EmptyTable,
          schema |-> sch \ {TableName}]
    ELSE [rejected |-> TableName \notin sch, table |-> EmptyTable, schema |-> sch]

NoInput == [slice |-> FALSE, tp |-> <<>>, elems |-> <<>>]

IdleFrame ==
    [pc |-> "idle", op |-> "none",
     DriverName |-> "", DataSourceName |-> "", BatchSize |-> 0,
     input |-> NoInput, cols |-> <<>>, tm |-> 0,
     conn |-> 0, step |-> 0, i |-> 0, rowsAffected |-> 0,
     tx |-> "none", log |-> <<>>, rs |-> <<>>,
     err |-> "nil", ret |-> 0, info |-> 0, sent |-> 0, fault |-> FALSE,
     before |-> 0, ld |-> <<>>, raced |-> FALSE, query |-> ""]

\* A Model as its caller constructs it: the identity fields and BatchSize set.
NewModel(drv, dsn, batch) ==
    [DriverName |-> drv, DataSourceName |-> dsn, BatchSize |-> batch,
     Records |-> <<>>, rows |-> <<>>]

\* No entry in the registry, no pool, the table user created and empty, no
\* call in progress.
Fresh ==
    /\ connections = <<>>
    /\ pools = <<>>
    /\ table = EmptyTable
    /\ schema = {TableName}
    /\ frame = [p \in Procs |-> IdleFrame]

NoTest == [pc |-> "off", tp |-> <<>>, values |-> <<>>, err |-> "nil",
           records |-> <<>>, fault |-> FALSE]

Init ==
    /\ \E drv \in Drivers, dsn \in DSNs, batch \in BatchSizes :
         model = NewModel(drv, dsn, batch)
    /\ Fresh
    /\ test = NoTest

\* The Model of the package's tests: Model{DriverName: "mysql",
\* DataSourceName: "test@tcp(localhost)/test"}.
InitTest ==
    /\ model = NewModel(driverName, GoodDSN, 0)
    /\ Fresh
    /\ test = NoTest

Idle(p) == frame[p].pc = "idle"

Set(p, f) == frame' = [frame EXCEPT ![p] = f]

\* Goroutine p stores to Model.rows or Model.Records: a Read of another
\* goroutine that has emptied Model.rows has been raced with.
SetStoring(p, f) ==
    frame' = [q \in Procs |->
                IF q = p THEN f
                ELSE IF frame[q].op = "Read"
                        /\ frame[q].pc \in {"clear Records", "scan", "rows", "elem",
                                            "records", "done"}
                THEN [frame[q] EXCEPT !.raced = TRUE]
                ELSE frame[q]]

\* The call returns (err = "error"), or panics (err = "panic").
Finish(f, err, ret) == [f EXCEPT !.pc = "done", !.err = err, !.ret = ret]

(***************************************************************************)
(* The caller sets the exported configuration fields of the Model.         *)
(***************************************************************************)
Configure(drv, dsn, batch) ==
    /\ \A p \in Procs : Idle(p)
    /\ <<drv, dsn, batch>> # <<model.DriverName, model.DataSourceName, model.BatchSize>>
    /\ model' = [model EXCEPT !.DriverName = drv, !.DataSourceName = dsn,
                              !.BatchSize = batch]
    /\ UNCHANGED <<connections, pools, table, schema, frame, test>>

(***************************************************************************)
(* A goroutine calls an operation.  SQL, Create, Update, Cleanup and       *)
(* DBInfo have value receivers: they work on a copy of the Model taken at  *)
(* the call.  Read has a pointer receiver.                                 *)
(***************************************************************************)
Enter(p, op, input, cols, tm, query) ==
    /\ Idle(p)
    /\ Set(p, [IdleFrame EXCEPT
                 !.pc = "getConn", !.op = op,
                 !.DriverName = model.DriverName,
                 !.DataSourceName = model.DataSourceName,
                 !.BatchSize = model.BatchSize,
                 !.input = input, !.cols = cols, !.tm = tm, !.query = query,
                 !.before = IF op = "Read" THEN Len(model.Records) ELSE 0])
    /\ UNCHANGED <<model, connections, pools, table, schema>>

Call(p, op, input, cols, tm, query) ==
    /\ test.pc = "off"
    /\ Enter(p, op, input, cols, tm, query)
    /\ UNCHANGED test

CallSQL(p) ==
    /\ Idle(p)
    /\ \E query \in SQLQueries : Call(p, "SQL", NoInput, <<>>, 0, query)

CallCreate(p, inputs) ==
    /\ Idle(p)
    /\ \E input \in inputs : Call(p, "Create", input, <<>>, 0, "")

CallUpdate(p, inputs) ==
    /\ Idle(p)
    /\ \E input \in inputs : Call(p, "Update", input, <<>>, 0, "")

CallRead(p, lists, types) ==
    /\ Idle(p)
    /\ \E cols \in lists, tp \in types :
         Call(p, "Read", [slice |-> FALSE, tp |-> tp, elems |-> <<>>], cols, 0, "")

CallCleanup(p) ==
    /\ Idle(p)
    /\ \E tm \in 1..(MaxId + 1) : Call(p, "Cleanup", NoInput, <<>>, tm, "")

CallDBInfo(p) == Call(p, "DBInfo", NoInput, <<>>, 0, "")

(***************************************************************************)
(* getConn, up to the registry lookup.  getConn's error makes SQL, Create, *)
(* Update and Read return an error, and Cleanup and DBInfo panic.          *)
(***************************************************************************)
ConnErr(op) == IF op \in {"Cleanup", "DBInfo"} THEN "panic" ELSE "error"

ConnKey(f) == f.DriverName \o f.DataSourceName

\* The driver name is not "mysql", or the data source name is empty.
ConfigRejectedDriverOnly(f) == f.DriverName # driverName

ConfigRejected(f) == f.DriverName # driverName \/ f.DataSourceName = ""

\* model.BatchSize = 1 << 12 in getConn: Read has a pointer receiver and
\* sets the caller's Model, the other operations set their copy.
SetBatchSizeShared(op, m, batch) == [m EXCEPT !.BatchSize = batch]

SetBatchSize(op, m, batch) ==
    IF op = "Read" THEN [m EXCEPT !.BatchSize = batch] ELSE m

GetConn(p) ==
    LET f == frame[p]
        batch == IF f.BatchSize = 0 THEN DefaultBatchSize ELSE f.BatchSize
        key == ConnKey(f)
    IN /\ f.pc = "getConn"
       /\ IF ConfigRejected(f)
          THEN /\ Set(p, Finish(f, ConnErr(f.op), 0))
               /\ UNCHANGED model
          ELSE /\ model' = SetBatchSize(f.op, model, batch)
               /\ IF f.BatchSize < 0
                  THEN Set(p, Finish(f, ConnErr(f.op), 0))
                  ELSE IF key \in DOMAIN connections
                  THEN Set(p, [f EXCEPT !.pc = "body", !.BatchSize = batch,
                                        !.conn = connections[key]])
                  ELSE Set(p, [f EXCEPT !.pc = "open", !.BatchSize = batch])
       /\ UNCHANGED <<connections, pools, table, schema, test>>

\* The registry had no entry: sql.Open, then connections[key] = conn.
RegisterDropped(reg, key, conn) == reg

Register(reg, key, conn) == (key :> conn) @@ reg

GetConnOpen(p) ==
    LET f == frame[p]
        key == ConnKey(f)
        conn == Len(pools) + 1
    IN /\ f.pc = "open"
       /\ IF OpenRejects(f.DataSourceName)
          THEN /\ Set(p, Finish(f, ConnErr(f.op), 0))
               /\ UNCHANGED <<connections, pools>>
          ELSE /\ pools' = Append(pools, key)
               /\ connections' = Register(connections, key, conn)
               /\ Set(p, [f EXCEPT !.pc = "body", !.conn = conn])
       /\ UNCHANGED <<model, table, schema, test>>

(***************************************************************************)
(* SQL: conn.Exec(query), outside any transaction.                         *)
(***************************************************************************)
SQL(p) ==
    LET f == frame[p]
        res == ExecSQL(f.query, table, schema)
    IN /\ f.pc = "body" /\ f.op = "SQL"
       /\ \E fails \in BOOLEAN :
            IF fails \/ res.rejected
            THEN /\ Set(p, Finish([f EXCEPT !.sent = 1, !.fault = fails], "error", 0))
                 /\ UNCHANGED <<table, schema>>
            ELSE /\ Set(p, Finish([f EXCEPT !.sent = 1], "nil", 0))
                 /\ table' = res.table
                 /\ schema' = res.schema
       /\ UNCHANGED <<model, connections, pools, test>>

(***************************************************************************)
(* write: the checks of the argument, parseValue, the chunk size and       *)
(* conn.Begin(), whose error is dropped (tx is nil when it fails).         *)
(***************************************************************************)
\* `values` is not a slice, or has no elements.
InputRejectedNoSlice(input) == ~input.slice

InputRejected(input) == ~input.slice \/ Len(input.elems) < 1

\* step := model.Batchsize.  The Model of the source declares BatchSize and
\* no field spelt Batchsize; the line is read as the specification states
\* the chunk size, from the configured batch size (4096 by default), which
\* is the BatchSize of the receiver after getConn.
Batchsize(f) == f.BatchSize

WriteBegin(p) ==
    LET f == frame[p]
        pv == parseValue(f.input.tp, TableName, f.op)
    IN /\ f.pc = "body" /\ f.op \in WriteOps
       /\ IF InputRejected(f.input)
          THEN Set(p, Finish(f, "error", 0))
          ELSE IF Len(pv.fields) = 0
          THEN Set(p, Finish(f, "panic", 0))     \* integer divide by zero
          ELSE \E beginFails \in BOOLEAN :
                 Set(p, [f EXCEPT !.pc = "chunk",
                                  !.step = ChunkStep(Batchsize(f), Len(pv.fields)),
                                  !.i = 0,
                                  !.tx = IF beginFails THEN "nil" ELSE "open",
                                  !.fault = beginFails,
                                  !.sent = 1])
       /\ UNCHANGED <<model, connections, pools, table, schema, test>>

\* The statement of the chunk that starts at record i (0-based).
ChunkStmt(f) ==
    LET pv == parseValue(f.input.tp, TableName, f.op)
        n == Len(f.input.elems)
        last == Min(f.i + f.step, n)
        groups == last - f.i
    IN [mode |-> f.op,
        cols |-> pv.tags,
        groups |-> groups,
        params |-> ChunkParams(f.input.tp, pv.fields, f.input.elems, f.i + 1, last),
        text |-> SprintfQuery(pv.query, Join([g \in 1..groups |-> pv.placeholder], ","))]

\* The error return of a failed prepare or execute.
AbortWriteContinue(f) == [f EXCEPT !.i = @ + f.step]

AbortWrite(f) == Finish(f, "error", f.rowsAffected)

\* affected, _ := res.RowsAffected(); rowsAffected += affected
AccumulateLast(rowsAffected, affected) == affected

Accumulate(rowsAffected, affected) == rowsAffected + affected

(***************************************************************************)
(* write: one iteration of the chunk loop, in the two steps in which it    *)
(* waits for the server: build and prepare; execute and count.             *)
(***************************************************************************)
WritePrepare(p) ==
    LET f == frame[p]
        stmt == ChunkStmt(f)
    IN /\ f.pc = "chunk" /\ f.i < Len(f.input.elems)
       /\ IF f.tx = "nil"
          THEN Set(p, Finish(f, "panic", 0))     \* tx.Prepare on a nil *sql.Tx
          ELSE \E prepareFails \in BOOLEAN :
                 IF \/ prepareFails
                    \/ ParseStmt(stmt.text, stmt.cols, stmt.groups).kind = "rejected"
                    \/ PrepareRejects(TableName, stmt.cols, stmt.groups)
                 THEN Set(p, AbortWrite([f EXCEPT !.sent = @ + 1,
                                                  !.fault = prepareFails]))
                 ELSE Set(p, [f EXCEPT !.pc = "exec", !.sent = @ + 1])
       /\ UNCHANGED <<model, connections, pools, table, schema, test>>

WriteExec(p) ==
    LET f == frame[p]
        stmt == ChunkStmt(f)
    IN /\ f.pc = "exec" /\ f.op \in WriteOps
       /\ \E execFails \in BOOLEAN :
            IF \/ execFails
               \/ TableName \notin schema       \* dropped since the prepare
               \/ ExecRejects(stmt.cols, stmt.params, stmt.groups)
            THEN Set(p, AbortWrite([f EXCEPT !.sent = @ + 1, !.fault = execFails]))
            ELSE LET res == ApplyStmt(ApplyLog(table, f.log),
                                      ParseStmt(stmt.text, stmt.cols, stmt.groups),
                                      stmt.cols, stmt.params, 1, stmt.groups)
                 IN Set(p, [f EXCEPT !.pc = "chunk",
                                     !.log = Append(@, stmt),
                                     !.rowsAffected = Accumulate(@, res.n),
                                     !.i = @ + f.step,
                                     !.sent = @ + 1])
       /\ UNCHANGED <<model, connections, pools, table, schema, test>>

\* The return of write after tx.Commit() failed.
CommitFailedKeepsCount(f) == Finish([f EXCEPT !.tx = "closed"], "error", f.rowsAffected)

CommitFailed(f) == Finish([f EXCEPT !.tx = "closed"], "error", 0)

(***************************************************************************)
(* write: the loop is over: tx.Commit().                                   *)
(***************************************************************************)
WriteCommit(p) ==
    LET f == frame[p]
    IN /\ f.pc = "chunk" /\ f.i >= Len(f.input.elems)
       /\ \E commitFails \in BOOLEAN :
            IF commitFails
            THEN /\ Set(p, CommitFailed([f EXCEPT !.sent = @ + 1, !.fault = TRUE]))
                 /\ UNCHANGED table
            ELSE /\ Set(p, Finish([f EXCEPT !.tx = "committed", !.sent = @ + 1],
                                  "nil", f.rowsAffected))
                 /\ table' = ApplyLog(table, f.log)
       /\ UNCHANGED <<model, connections, pools, schema, test>>

(***************************************************************************)
(* Read: the select, which waits for the server, and after it the two      *)
(* stores that empty the Model's rows and Records.  Steps of another       *)
(* goroutine can come between the query and each of the stores.            *)
(***************************************************************************)
\* What Read does when conn.Query returns an error.
QueryErrorResets(f, m) ==
    [f |-> Finish(f, "error", 0), m |-> [m EXCEPT !.rows = <<>>, !.Records = <<>>]]

QueryError(f, m) == [f |-> Finish(f, "error", 0), m |-> m]

ReadQuery(p) ==
    LET f == frame[p]
    IN /\ f.pc = "body" /\ f.op = "Read"
       /\ \E queryFails \in BOOLEAN :
            IF queryFails \/ QueryRejects(TableName, f.cols)
            THEN LET r == QueryError([f EXCEPT !.sent = 1, !.fault = queryFails],
                                     model)
                 IN /\ Set(p, r.f)
                    /\ model' = r.m
            ELSE /\ Set(p, [f EXCEPT !.pc = "clear rows", !.sent = 1, !.i = 0,
                                     !.rs = SelectFrom(table, f.cols, 1)])
                 /\ UNCHANGED model
       /\ UNCHANGED <<connections, pools, table, schema, test>>

\* model.rows = [][]interface{}{}
ResetRowsKeeps(m) == m

ResetRows(m) == [m EXCEPT !.rows = <<>>]

ReadResetRows(p) ==
    LET f == frame[p]
    IN /\ f.pc = "clear rows"
       /\ model' = ResetRows(model)
       /\ SetStoring(p, [f EXCEPT !.pc = "clear Records"])
       /\ UNCHANGED <<connections, pools, table, schema, test>>

\* model.Records = []interface{}{}
ResetRecordsKeeps(m) == m

ResetRecords(m) == [m EXCEPT !.Records = <<>>]

ReadResetRecords(p) ==
    LET f == frame[p]
    IN /\ f.pc = "clear Records"
       /\ model' = ResetRecords(model)
       /\ SetStoring(p, [f EXCEPT !.pc = "scan"])
       /\ UNCHANGED <<connections, pools, table, schema, test>>

\* rows.Scan of one column value into a **T for a field of kind T.
ScanFails(kind, val) ==
    \/ kind = "struct"
    \/ kind = "int" /\ val.kind = "string" /\ ~IsNumeric(val.str)

Scanned(kind, val) ==
    IF kind = "int" THEN (IF val.kind = "int" THEN val.int ELSE Atoi(val.str))
    ELSE (IF val.kind = "int" THEN Itoa(val.int) ELSE val.str)

\* rows.Scan(values...) with one target per top-level field of readType.
RowScanFails(tp, row) ==
    \/ Len(row) # Len(tp)
    \/ \E c \in 1..Len(tp) : ScanFails(tp[c].kind, row[c])

ScanRow(tp, row) == [c \in 1..Len(tp) |-> Scanned(tp[c].kind, row[c])]

\* What Read does when rows.Scan returns an error.
ScanError(f, m) == [f |-> Finish(f, "error", 0), m |-> m]

(***************************************************************************)
(* Read: one iteration of the rows.Next() loop, or its end.  Each of the   *)
(* two appends reads the slice of the Model and then stores the longer     *)
(* slice back: another Read on the same Model can store in between.        *)
(***************************************************************************)
\* rows.Next(), rows.Scan(values...), and the slice model.rows as append reads it.
ReadRow(p) ==
    LET f == frame[p]
        tp == f.input.tp
        row == f.rs[f.i + 1]
    IN /\ f.pc = "scan"
       /\ IF f.i >= Len(f.rs)
          THEN /\ Set(p, Finish(f, "nil", 0))
               /\ UNCHANGED model
          ELSE IF RowScanFails(tp, row)
          THEN /\ Set(p, ScanError([f EXCEPT !.i = @ + 1], model).f)
               /\ model' = ScanError([f EXCEPT !.i = @ + 1], model).m
          ELSE /\ Set(p, [f EXCEPT !.pc = "rows", !.ld = model.rows])
               /\ UNCHANGED model
       /\ UNCHANGED <<connections, pools, table, schema, test>>

\* model.rows = append(model.rows, values): the store.
AppendRows(p) ==
    LET f == frame[p]
    IN /\ f.pc = "rows"
       /\ model' = [model EXCEPT
                      !.rows = Append(f.ld, ScanRow(f.input.tp, f.rs[f.i + 1]))]
       /\ SetStoring(p, [f EXCEPT !.pc = "elem", !.ld = <<>>])
       /\ UNCHANGED <<connections, pools, table, schema, test>>

\* elem is built from the scanned values; the slice model.Records as append
\* reads it.
ReadElem(p) ==
    LET f == frame[p]
    IN /\ f.pc = "elem"
       /\ Set(p, [f EXCEPT !.pc = "records", !.ld = model.Records])
       /\ UNCHANGED <<model, connections, pools, table, schema, test>>

\* model.Records = append(model.Records, elem.Elem().Interface()): the store,
\* and the next iteration.
AppendRecords(p) ==
    LET f == frame[p]
    IN /\ f.pc = "records"
       /\ model' = [model EXCEPT
                      !.Records = Append(f.ld, ScanRow(f.input.tp, f.rs[f.i + 1]))]
       /\ SetStoring(p, [f EXCEPT !.pc = "scan", !.ld = <<>>, !.i = @ + 1])
       /\ UNCHANGED <<connections, pools, table, schema, test>>

(***************************************************************************)
(* Cleanup: delete from user where id < tm, prepared and then executed.    *)
(***************************************************************************)
Cleanup(p) ==
    LET f == frame[p]
    IN /\ f.pc = "body" /\ f.op = "Cleanup"
       /\ \E prepareFails \in BOOLEAN :
            IF prepareFails \/ TableName \notin schema
            THEN Set(p, Finish([f EXCEPT !.sent = 1, !.fault = prepareFails], "error", 0))
            ELSE Set(p, [f EXCEPT !.pc = "exec", !.sent = 1])
       /\ UNCHANGED <<model, connections, pools, table, schema, test>>

\* res, err := query.Exec(tm)
CleanupExec(p) ==
    LET f == frame[p]
    IN /\ f.pc = "exec" /\ f.op = "Cleanup"
       /\ \E execFails \in BOOLEAN :
            IF execFails \/ TableName \notin schema   \* dropped since the prepare
            THEN /\ Set(p, Finish([f EXCEPT !.sent = 2, !.fault = execFails], "error", 0))
                 /\ UNCHANGED table
            ELSE /\ Set(p, Finish([f EXCEPT !.sent = 2], "nil", 0))
                 /\ table' = [k \in Ids |-> IF k < f.tm THEN NoRow ELSE table[k]]
       /\ UNCHANGED <<model, connections, pools, schema, test>>

(***************************************************************************)
(* DBInfo: select version(); one line of info per row.                     *)
(***************************************************************************)
DBInfo(p) ==
    LET f == frame[p]
    IN /\ f.pc = "body" /\ f.op = "DBInfo"
       /\ \E queryFails \in BOOLEAN :
            IF queryFails
            THEN Set(p, Finish([f EXCEPT !.sent = 1, !.fault = TRUE], "panic", 0))
            ELSE Set(p, Finish([f EXCEPT !.sent = 1, !.info = 1], "nil", 0))
       /\ UNCHANGED <<model, connections, pools, table, schema, test>>

\* The caller has the result; the goroutine is free for the next call.
Return(p) ==
    /\ test.pc = "off"
    /\ frame[p].pc = "done"
    /\ Set(p, IdleFrame)
    /\ UNCHANGED <<model, connections, pools, table, schema, test>>

\* The steps inside the operations.
Run(p) ==
    \/ GetConn(p) \/ GetConnOpen(p)
    \/ SQL(p) \/ WriteBegin(p) \/ WritePrepare(p) \/ WriteExec(p) \/ WriteCommit(p)
    \/ ReadQuery(p) \/ ReadResetRows(p) \/ ReadResetRecords(p)
    \/ ReadRow(p) \/ AppendRows(p) \/ ReadElem(p) \/ AppendRecords(p)
    \/ Cleanup(p) \/ CleanupExec(p) \/ DBInfo(p)
    \/ Return(p)

\* A caller of every operation.
Step(p) ==
    \/ CallSQL(p) \/ CallCreate(p, FewInputs) \/ CallUpdate(p, FewInputs)
    \/ CallRead(p, ColumnLists, RecordTypes) \/ CallCleanup(p) \/ CallDBInfo(p)
    \/ Run(p)

(***************************************************************************)
(* Spec: one goroutine calls the operations one after the other and sets   *)
(* the configuration fields between calls.                                 *)
(***************************************************************************)
Next ==
    \/ \E drv \in Drivers, dsn \in DSNs, batch \in BatchSizes : Configure(drv, dsn, batch)
    \/ Step(1)

Spec == Init /\ [][Next]_vars

(***************************************************************************)
(* SpecWrite: one goroutine writes slices of up to MaxLen records.         *)
(***************************************************************************)
NextWrite ==
    \/ CallCreate(1, WriteInputs) \/ CallUpdate(1, WriteInputs)
    \/ GetConn(1) \/ GetConnOpen(1)
    \/ WriteBegin(1) \/ WritePrepare(1) \/ WriteExec(1) \/ WriteCommit(1)
    \/ Return(1)

\* The Model of the tests, with any BatchSize.
InitWrite ==
    /\ \E batch \in BatchSizes : model = NewModel(driverName, GoodDSN, batch)
    /\ Fresh
    /\ test = NoTest

SpecWrite == InitWrite /\ [][NextWrite]_vars

(***************************************************************************)
(* SpecConc: two goroutines share the Model, their steps interleaved: the  *)
(* first one calls the operations with a value receiver, the second one    *)
(* Reads.                                                                  *)
(***************************************************************************)
ConcInputs == Inputs({TypeT}, 1, {"a"})

NextConc ==
    \/ CallSQL(1) \/ CallCreate(1, ConcInputs) \/ CallUpdate(1, ConcInputs)
    \/ CallCleanup(1) \/ CallDBInfo(1)
    \/ SQL(1) \/ WriteBegin(1) \/ WritePrepare(1) \/ WriteExec(1) \/ WriteCommit(1)
    \/ Cleanup(1) \/ CleanupExec(1) \/ DBInfo(1)
    \/ CallRead(2, {Columns}, {TypeT})
    \/ ReadQuery(2) \/ ReadResetRows(2) \/ ReadResetRecords(2)
    \/ ReadRow(2) \/ AppendRows(2) \/ ReadElem(2) \/ AppendRecords(2)
    \/ \E p \in Procs : GetConn(p) \/ GetConnOpen(p) \/ Return(p)

SpecConc == InitTest /\ [][NextConc]_vars

(***************************************************************************)
(* SpecRace: two goroutines Read on the same Model, their steps            *)
(* interleaved; the first one also writes the values of Test_write,        *)
(* []T{{1, "a"}, {2, "b"}}, and calls again after each return, the second  *)
(* one makes a single Read.  Read appends whatever the length of           *)
(* Model.rows and Model.Records; the number of calls is what keeps them    *)
(* finite.                                                                 *)
(***************************************************************************)
TestValues == [slice |-> TRUE, tp |-> TypeT, elems |-> <<<<1, "a">>, <<2, "b">>>>]

NextRace ==
    \/ CallUpdate(1, {TestValues})
    \/ WriteBegin(1) \/ WritePrepare(1) \/ WriteExec(1) \/ WriteCommit(1)
    \/ \E p \in Procs :
          \/ CallRead(p, {Columns}, {TypeT})
          \/ GetConn(p) \/ GetConnOpen(p)
          \/ ReadQuery(p) \/ ReadResetRows(p) \/ ReadResetRecords(p)
          \/ ReadRow(p) \/ AppendRows(p) \/ ReadElem(p) \/ AppendRecords(p)
    \/ Return(1)

SpecRace == InitTest /\ [][NextRace]_vars

(***************************************************************************)
(* Test_write: SQL("create table user ..."), DBInfo, Update("user",        *)
(* values), then checkRead twice: Read("user", columns, "", T{}) and the   *)
(* comparison of Model.Records with values; the deferred SQL("drop table   *)
(* user") runs when the test returns, or panics.  The database has no      *)
(* table user when the test starts.  The values, their type and BatchSize  *)
(* are drawn from the bounded sets; the columns are the type's tags in     *)
(* field order.                                                            *)
(***************************************************************************)
InitRoundTrip ==
    /\ \E batch \in 0..(MaxLen - 1) : model = NewModel(driverName, GoodDSN, batch)
    /\ connections = <<>>
    /\ pools = <<>>
    /\ table = EmptyTable
    /\ schema = {}
    /\ frame = [p \in Procs |-> IdleFrame]
    /\ \E tp \in TestTypes, n \in 1..MaxLen :
         \E values \in [1..n -> Ids \X Names] :
            test = [pc |-> "create", tp |-> tp, values |-> values, err |-> "nil",
                    records |-> <<>>, fault |-> FALSE]

TestCreate ==
    /\ test.pc = "create"
    /\ Enter(1, "SQL", NoInput, <<>>, 0, CreateTable)
    /\ test' = [test EXCEPT !.pc = "SQL create"]

\* if err := model.SQL("create table ..."); err != nil { t.Error(err) }
TestCreated ==
    /\ test.pc = "SQL create" /\ frame[1].pc = "done"
    /\ Set(1, IdleFrame)
    /\ test' = [test EXCEPT !.pc = "version", !.fault = @ \/ frame[1].fault]
    /\ UNCHANGED <<model, connections, pools, table, schema>>

TestDBInfo ==
    /\ test.pc = "version"
    /\ Enter(1, "DBInfo", NoInput, <<>>, 0, "")
    /\ test' = [test EXCEPT !.pc = "DBInfo"]

\* if info := model.DBInfo(); len(info) != 1 { t.Error(...); return }
TestVersion ==
    /\ test.pc = "DBInfo" /\ frame[1].pc = "done"
    /\ Set(1, IdleFrame)
    /\ test' = [test EXCEPT !.pc = IF frame[1].err = "nil" /\ frame[1].info = 1
                                   THEN "write" ELSE "defer",
                            !.fault = @ \/ frame[1].fault]
    /\ UNCHANGED <<model, connections, pools, table, schema>>

TestUpdate ==
    /\ test.pc = "write"
    /\ Enter(1, "Update", [slice |-> TRUE, tp |-> test.tp, elems |-> test.values],
             <<>>, 0, "")
    /\ test' = [test EXCEPT !.pc = "Update"]

\* if _, err := model.Update("user", values); err != nil { t.Error(err); return }
TestUpdated ==
    /\ test.pc = "Update" /\ frame[1].pc = "done"
    /\ Set(1, IdleFrame)
    /\ test' = [test EXCEPT !.pc = IF frame[1].err = "nil" THEN "read" ELSE "defer",
                            !.err = frame[1].err,
                            !.fault = @ \/ frame[1].fault]
    /\ UNCHANGED <<model, connections, pools, table, schema>>

TestRead ==
    /\ test.pc \in {"read", "re-read"}
    /\ Enter(1, "Read", [slice |-> FALSE, tp |-> test.tp, elems |-> <<>>],
             tagsOf(test.tp), 0, "")
    /\ test' = [test EXCEPT !.pc = IF test.pc = "read" THEN "checkRead"
                                   ELSE "checkRead again"]

\* checkRead compares Model.Records with values; whatever it reports, the
\* test goes on.
TestChecked ==
    /\ test.pc \in {"checkRead", "checkRead again"} /\ frame[1].pc = "done"
    /\ Set(1, IdleFrame)
    /\ test' = [test EXCEPT !.pc = IF test.pc = "checkRead" THEN "re-read" ELSE "defer",
                            !.err = frame[1].err,
                            !.records = IF test.pc = "checkRead" THEN model.Records ELSE @,
                            !.fault = @ \/ frame[1].fault]
    /\ UNCHANGED <<model, connections, pools, table, schema>>

\* The deferred function: if err := model.SQL("drop table ..."); err != nil
\* { t.Error(err) }
TestDrop ==
    /\ test.pc = "defer"
    /\ Enter(1, "SQL", NoInput, <<>>, 0, DropTable)
    /\ test' = [test EXCEPT !.pc = "SQL drop"]

TestDropped ==
    /\ test.pc = "SQL drop" /\ frame[1].pc = "done"
    /\ Set(1, IdleFrame)
    /\ test' = [test EXCEPT !.pc = "end", !.fault = @ \/ frame[1].fault]
    /\ UNCHANGED <<model, connections, pools, table, schema>>

NextRoundTrip ==
    \/ TestCreate \/ TestCreated \/ TestDBInfo \/ TestVersion
    \/ TestUpdate \/ TestUpdated \/ TestRead \/ TestChecked
    \/ TestDrop \/ TestDropped
    \/ GetConn(1) \/ GetConnOpen(1)
    \/ SQL(1) \/ DBInfo(1)
    \/ WriteBegin(1) \/ WritePrepare(1) \/ WriteExec(1) \/ WriteCommit(1)
    \/ ReadQuery(1) \/ ReadResetRows(1) \/ ReadResetRecords(1)
    \/ ReadRow(1) \/ AppendRows(1) \/ ReadElem(1) \/ AppendRecords(1)

SpecRoundTrip == InitRoundTrip /\ [][NextRoundTrip]_vars

(***************************************************************************)
(* Test_parseValue: parseValue(reflect.ValueOf(p), table, mode), then      *)
(* fmt.Sprintf(query, placeholder).  The record type is drawn from the     *)
(* types of at most MaxFields fields, each a tagged or untagged leaf or a  *)
(* named or embedded struct; the mode is Create or Update; the template    *)
(* is filled with one group, as in the test, or with several, as in write. *)
(***************************************************************************)
LeafFields ==
    {Leaf("ID", tag, "int") : tag \in {"", "id", "name"}}
    \cup {Leaf("Name", tag, "string") : tag \in {"", "id", "name"}}

SubStructs ==
    {<<>>,
     <<Leaf("ID", "id", "int")>>,
     <<Leaf("Name", "", "string")>>,
     <<Leaf("ID", "id", "int"), Leaf("Name", "name", "string")>>,
     <<Leaf("Name", "name", "string"), Leaf("Age", "name", "int")>>,
     <<Struct("being", TRUE, <<Leaf("Name", "name", "string")>>),
       Leaf("Age", "age", "int")>>}

StructFields ==
    {Struct("key", embedded, sub) : embedded \in BOOLEAN, sub \in SubStructs}

ParseTypes == UNION {[1..n -> LeafFields \cup StructFields] : n \in 0..MaxFields}

InitParse ==
    /\ model = NewModel(driverName, GoodDSN, 0)
    /\ Fresh
    /\ \E tp \in ParseTypes, mode \in WriteOps :
         test = [pc |-> "parseValue", tp |-> tp, mode |-> mode,
                 out |-> parseValue(<<>>, "", ""), groups |-> 0, text |-> ""]

TestParseValue ==
    /\ test.pc = "parseValue"
    /\ test' = [test EXCEPT !.pc = "Sprintf",
                            !.out = parseValue(test.tp, TableName, test.mode)]
    /\ UNCHANGED <<model, connections, pools, table, schema, frame>>

TestSprintf ==
    /\ test.pc = "Sprintf"
    /\ \E groups \in 1..MaxLen :
         test' = [test EXCEPT
                    !.pc = "end", !.groups = groups,
                    !.text = SprintfQuery(test.out.query,
                                Join([g \in 1..groups |-> test.out.placeholder], ","))]
    /\ UNCHANGED <<model, connections, pools, table, schema, frame>>

NextParse == TestParseValue \/ TestSprintf

SpecParse == InitParse /\ [][NextParse]_vars

(***************************************************************************)
(*                              The claims                                 *)
(***************************************************************************)
IsWrite(f) == f.op \in WriteOps

\* The input of a write that passes the checks of `values`.
GoodInput(f) == f.input.slice /\ Len(f.input.elems) >= 1

\* The identifiers of a slice are distinct and ascending.
Ascending(values) ==
    \A a, b \in 1..Len(values) : a < b => values[a][1] < values[b][1]

\* The BatchSize a call works with: the configured one, 4096 for 0.
Configured(batch) == IF batch = 0 THEN DefaultBatchSize ELSE batch

\* The whole slice applied to a table state as one statement.
ApplyAll(t, f) ==
    LET pv == parseValue(f.input.tp, TableName, f.op)
        n == Len(f.input.elems)
    IN ApplyStmt(t, [kind |-> IF f.op = "Create" THEN "ignore" ELSE "update",
                     updates |-> ColumnSet],
                 pv.tags, ChunkParams(f.input.tp, pv.fields, f.input.elems, 1, n), 1, n).t

(* C1: round trip.  On a fresh table, after Update has written a non-empty *)
(* slice whose identifiers are distinct and ascending, and the backend has *)
(* not failed, Read of the same table with the columns in field order      *)
(* returns nil and leaves Model.Records equal to the slice, in length and  *)
(* element by element.                                                     *)
C1_RoundTrip ==
    (test.pc = "checkRead" /\ frame[1].pc = "done" /\ ~frame[1].fault
       /\ Ascending(test.values))
    => /\ frame[1].err = "nil"
       /\ Len(model.Records) = Len(test.values)
       /\ \A k \in 1..Len(test.values) : model.Records[k] = test.values[k]

(* C2: abort and atomicity of write.  A failed prepare or execute ends the *)
(* call at once: no later chunk is executed, nothing is committed, the     *)
(* error is non-nil and the count returned is the one accumulated so far.  *)
(* The committed table changes only in the step that commits, and then     *)
(* by all the records of the call.                                         *)
C2_AbortAtomic ==
    [][\A p \in Procs :
         LET f == frame[p]
             g == frame'[p]
         IN /\ (IsWrite(f) /\ f.pc \in {"chunk", "exec"} /\ g.pc = "done" /\ g.tx = "open")
                 => /\ g.err = "error"
                    /\ g.ret = f.rowsAffected
                    /\ g.log = f.log
                    /\ table' = table
            /\ (IsWrite(f) /\ f.pc # "idle" /\ table' # table)
                 => /\ g.pc = "done" /\ g.err = "nil" /\ g.tx = "committed"
                    /\ table' = ApplyAll(table, f)
            /\ (IsWrite(f) /\ f.pc = "done") => table' = table]_vars

\* A write aborted in its second chunk, the first one executed, nothing committed.
C2_Witness ==
    /\ frame[1].pc = "done" /\ IsWrite(frame[1])
    /\ frame[1].tx = "open" /\ frame[1].err = "error"
    /\ Len(frame[1].log) = 1 /\ frame[1].ret >= 1
    /\ table = EmptyTable

(* C3: when every chunk of a write has succeeded and the commit fails,     *)
(* the call returns 0 rows affected and a non-nil error, and does not      *)
(* panic.                                                                  *)
C3_CommitFailure ==
    \A p \in Procs :
        LET f == frame[p]
        IN (f.pc = "done" /\ IsWrite(f) /\ GoodInput(f)
              /\ f.i >= Len(f.input.elems) /\ f.tx # "committed")
           => (f.ret = 0 /\ f.err = "error")

\* The commit failed after the chunks had counted affected rows.
C3_Witness ==
    /\ frame[1].pc = "done" /\ IsWrite(frame[1]) /\ GoodInput(frame[1])
    /\ frame[1].i >= Len(frame[1].input.elems) /\ frame[1].tx # "committed"
    /\ frame[1].rowsAffected >= 2 /\ Len(frame[1].log) = 2

(* C4: no transaction opened by write is still open when write has         *)
(* returned.                                                               *)
C4_NoOpenTx ==
    \A p \in Procs : (frame[p].pc = "done" /\ IsWrite(frame[p])) => frame[p].tx # "open"

(* C5: under any interleaving, at most one pool is opened for an identity  *)
(* pair, and all the calls in progress on that pair hold the same handle.  *)
C5_OnePool ==
    /\ \A h, k \in 1..Len(pools) : pools[h] = pools[k] => h = k
    /\ \A p, q \in Procs :
         (frame[p].conn # 0 /\ frame[q].conn # 0 /\ ConnKey(frame[p]) = ConnKey(frame[q]))
         => frame[p].conn = frame[q].conn

(* C6: the connection cache in sequential use.  Every pool that was opened *)
(* is the registered entry of its key driver+dataSource and every entry is *)
(* such a pool (so no key has two pools and no entry was removed or        *)
(* replaced), and a call past getConn holds the registered handle of its   *)
(* key.                                                                    *)
KeyOf(drv, dsn) == drv \o dsn

C6_Cache ==
    /\ \A h \in 1..Len(pools) :
         pools[h] \in DOMAIN connections /\ connections[pools[h]] = h
    /\ \A key \in DOMAIN connections :
         connections[key] \in 1..Len(pools) /\ pools[connections[key]] = key
    /\ \A p \in Procs :
         LET f == frame[p]
             key == KeyOf(f.DriverName, f.DataSourceName)
         IN f.pc \in {"body", "chunk", "exec", "clear rows", "clear Records", "scan",
                     "rows", "elem", "records"}
            => (key \in DOMAIN connections /\ f.conn = connections[key])

\* Two pairs are registered, and a later call on the first pair holds the
\* handle registered first.
C6_Witness ==
    /\ Len(pools) = 2
    /\ frame[1].pc = "body" /\ frame[1].conn = 1

(* C7: configuration errors.  A call on a Model whose driver name is not   *)
(* "mysql" or whose data source name is empty fails in getConn (an error,  *)
(* or a panic for Cleanup and DBInfo): while it is in progress no pool is  *)
(* opened, the registry and the table do not change, it gets no            *)
(* connection and sends no statement.                                      *)
C7_ConfigError ==
    [][\A p \in Procs :
         LET f == frame[p]
             g == frame'[p]
         IN (f.pc # "idle" /\ (f.DriverName # "mysql" \/ f.DataSourceName = ""))
            => /\ pools' = pools /\ connections' = connections /\ table' = table
               /\ g.sent = 0 /\ g.conn = 0 /\ g.tx = "none"
               /\ f.pc = "getConn" => (g.pc = "done" /\ g.err # "nil")]_vars

\* A call with an empty data source name has failed, a pool being registered
\* for another pair.
C7_Witness ==
    /\ frame[1].pc = "done" /\ frame[1].DataSourceName = ""
    /\ frame[1].err # "nil" /\ Len(pools) = 1

(* C8: input-shape errors.  Create and Update with a value that is no      *)
(* slice, or with an empty slice, return a non-nil error and 0 rows        *)
(* affected, without a panic, a transaction or a statement.                *)
C8_InputShape ==
    \A p \in Procs :
        LET f == frame[p]
        IN (IsWrite(f) /\ ~GoodInput(f))
           => /\ f.tx = "none" /\ f.sent = 0 /\ f.log = <<>>
              /\ f.pc \in {"getConn", "open", "body", "done"}
              /\ f.pc = "done" => (f.err = "error" /\ f.ret = 0)

\* Update of an empty slice has returned its error on a valid Model.
C8_Witness ==
    /\ frame[1].pc = "done" /\ frame[1].op = "Update" /\ frame[1].conn # 0
    /\ frame[1].input.slice /\ frame[1].input.elems = <<>>
    /\ frame[1].err = "error"

(* C9: chunk sizing.  The chunk size of a write is the smaller of          *)
(* BatchSize (4096 when configured as 0) and floor(65535 / columnCount);   *)
(* every statement the write executes binds columnCount parameters per     *)
(* row, at most 65535 parameters and at most BatchSize rows.               *)
C9_ChunkSize ==
    \A p \in Procs :
        LET f == frame[p]
            m == Len(Leaves(f.input.tp))
            batch == Configured(model.BatchSize)
        IN (IsWrite(f) /\ GoodInput(f) /\ (f.pc = "chunk" \/ f.tx # "none"))
           => /\ f.step = Min(batch, 65535 \div m)
              /\ m * f.step <= 65535
              /\ \A c \in 1..Len(f.log) :
                   /\ Len(f.log[c].params) = m * f.log[c].groups
                   /\ Len(f.log[c].params) <= 65535
                   /\ f.log[c].groups <= batch

\* The parameter ceiling decides the chunk size.
C9_Witness ==
    /\ frame[1].pc = "done" /\ IsWrite(frame[1]) /\ Len(frame[1].log) = 1
    /\ frame[1].step = 32767 /\ model.BatchSize = LargeBatch

(* C10: chunking boundary.  A write of n records in which no chunk fails   *)
(* executes exactly ceil(n / chunkSize) statements: one for chunkSize      *)
(* records, two for chunkSize + 1.                                         *)
C10_Executions ==
    \A p \in Procs :
        LET f == frame[p]
            n == Len(f.input.elems)
            chunkSize == Min(Configured(model.BatchSize),
                             65535 \div Len(Leaves(f.input.tp)))
        IN (IsWrite(f) /\ GoodInput(f) /\ f.pc \in {"chunk", "done"} /\ f.i >= n)
           => /\ Len(f.log) = (n + chunkSize - 1) \div chunkSize
              /\ n = chunkSize => Len(f.log) = 1
              /\ n = chunkSize + 1 => Len(f.log) = 2

\* chunkSize + 1 records were written in two executions.
C10_Witness ==
    /\ frame[1].pc = "done" /\ IsWrite(frame[1]) /\ frame[1].err = "nil"
    /\ Len(frame[1].input.elems) = frame[1].step + 1
    /\ Len(frame[1].log) = 2

(* C11: conflict semantics.  A Create that commits leaves every row that   *)
(* was in the table as it was, gives a new identifier the value of its     *)
(* first record in the slice, and returns the number of identifiers that   *)
(* were new (zero rows for a duplicate).  An Update that commits leaves,   *)
(* for every identifier of the slice, the value of its last record in      *)
(* every listed column.                                                    *)
InputIds(values) == {values[j][1] : j \in 1..Len(values)}

FirstOf(values, k) ==
    values[CHOOSE j \in 1..Len(values) :
             values[j][1] = k /\ \A h \in 1..(j - 1) : values[h][1] # k]

LastOf(values, k) ==
    values[CHOOSE j \in 1..Len(values) :
             values[j][1] = k /\ \A h \in (j + 1)..Len(values) : values[h][1] # k]

C11_Conflict ==
    [][\A p \in Procs :
         LET f == frame[p]
             g == frame'[p]
             values == f.input.elems
         IN (IsWrite(f) /\ f.pc = "chunk" /\ g.pc = "done" /\ g.err = "nil")
            => /\ f.op = "Create" =>
                    /\ \A k \in Ids : table[k] # NoRow => table'[k] = table[k]
                    /\ \A k \in InputIds(values) :
                         table[k] = NoRow => table'[k] = FirstOf(values, k)[2]
                    /\ g.ret = Cardinality({k \in InputIds(values) : table[k] = NoRow})
               /\ f.op = "Update" =>
                    \A k \in InputIds(values) : table'[k] = LastOf(values, k)[2]
               /\ \A k \in Ids \ InputIds(values) : table'[k] = table[k]]_vars

\* A Create of an identifier already stored with another value has committed:
\* the stored value stands and no row was affected.
C11_Witness ==
    /\ frame[1].pc = "done" /\ frame[1].op = "Create" /\ frame[1].err = "nil"
    /\ frame[1].input.elems = <<<<1, "b">>>>
    /\ table[1] = "a" /\ frame[1].ret = 0

(* C12: Read replaces, never appends.  When a Read has returned nil,       *)
(* Model.Records holds exactly the decoded rows of that call's result set, *)
(* in result order, and the raw row list has the length of Records,        *)
(* whatever an earlier Read had left in the Model.                         *)
Decoded(val) == IF val.kind = "int" THEN val.int ELSE val.str

C12_ReadReplaces ==
    \A p \in Procs :
        LET f == frame[p]
        IN (f.op = "Read" /\ f.pc = "done" /\ f.err = "nil")
           => /\ Len(model.Records) = Len(f.rs)
              /\ Len(model.rows) = Len(model.Records)
              /\ \A k \in 1..Len(f.rs) :
                   /\ Len(model.Records[k]) = Len(f.rs[k])
                   /\ \A c \in 1..Len(f.rs[k]) :
                        model.Records[k][c] = Decoded(f.rs[k][c])

\* A Read has returned nil with one record, on a Model that held the two
\* records of an earlier Read when it was called.
C12_Witness ==
    /\ frame[1].op = "Read" /\ frame[1].pc = "done" /\ frame[1].err = "nil"
    /\ frame[1].before = 2 /\ Len(model.Records) = 1

(* C13: tolerant scan failure.  When the scan of a result row fails during *)
(* Read, the row is skipped and the loop goes on: Read returns nil, has    *)
(* gone through the whole result set, and Records holds exactly the rows   *)
(* whose scan succeeded.                                                   *)
ScannedRows(tp, rs) == {k \in 1..Len(rs) : ~RowScanFails(tp, rs[k])}

C13_TolerantScan ==
    \A p \in Procs :
        LET f == frame[p]
        IN (f.op = "Read" /\ f.pc = "done"
              /\ \E k \in 1..Len(f.rs) : RowScanFails(f.input.tp, f.rs[k]))
           => /\ f.err = "nil"
              /\ f.i = Len(f.rs)
              /\ Len(model.Records) = Cardinality(ScannedRows(f.input.tp, f.rs))

(* C14: idempotent re-read.  Two consecutive Reads of the same table,      *)
(* columns and record type, the table unchanged between them and the       *)
(* backend not failing, return the same error value and leave the same     *)
(* sequence in Model.Records.                                              *)
C14_ReRead ==
    (test.pc = "checkRead again" /\ frame[1].pc = "done"
       /\ ~test.fault /\ ~frame[1].fault)
    => /\ model.Records = test.records
       /\ frame[1].err = test.err

\* The second Read of Test_write has returned the records of the first.
C14_Witness ==
    /\ test.pc = "checkRead again" /\ frame[1].pc = "done"
    /\ ~test.fault /\ ~frame[1].fault
    /\ frame[1].err = "nil" /\ Len(test.records) = 2 /\ Len(model.Records) = 2

(* C15: Read is not safe for concurrent use on one Model.  A Read that     *)
(* returned nil leaves its own result in Model.Records and in the raw rows *)
(* as long as no other goroutine has stored to them since its query; two   *)
(* Reads that overlap can leave Records the result of neither call run     *)
(* alone (the witness): rows of both calls mixed, or rows lost to the      *)
(* other call's reset or append.                                           *)
DecodedRows(rs) ==
    [k \in 1..Len(rs) |-> [c \in 1..Len(rs[k]) |-> Decoded(rs[k][c])]]

BothRead ==
    \A p \in Procs : frame[p].op = "Read" /\ frame[p].pc = "done" /\ frame[p].err = "nil"

C15_ReadRace ==
    \A p \in Procs :
        LET f == frame[p]
        IN (f.op = "Read" /\ f.pc = "done" /\ f.err = "nil" /\ ~f.raced)
           => /\ model.Records = DecodedRows(f.rs)
              /\ model.rows = DecodedRows(f.rs)

\* Both Reads returned nil and Records is the result of neither.
C15_Witness ==
    /\ BothRead
    /\ \A p \in Procs : frame[p].raced /\ model.Records # DecodedRows(frame[p].rs)

(* C16: writes do not touch the read state.  No step of SQL, Create,       *)
(* Update, Cleanup or DBInfo, successful or failed, changes the caller's   *)
(* Model: Records, the raw rows and BatchSize change only in a step of a   *)
(* Read, also when the calls are interleaved with a Read on the same       *)
(* Model.                                                                  *)
ByValue == {"SQL", "Create", "Update", "Cleanup", "DBInfo"}

C16_WritesKeepModel ==
    [][/\ \A p \in Procs :
            (frame[p].op \in ByValue /\ frame'[p] # frame[p]) => model' = model
       /\ model' # model =>
            \E p \in Procs : frame[p].op = "Read" /\ frame'[p] # frame[p]]_vars

\* An Update has committed while a Read on the same Model is between its
\* two appends; the caller's BatchSize is the one the Read has set.
C16_Witness ==
    /\ frame[1].pc = "done" /\ frame[1].op = "Update" /\ frame[1].err = "nil"
    /\ frame[1].ret = 1
    /\ frame[2].op = "Read" /\ frame[2].pc = "records"
    /\ Len(model.rows) = 1 /\ model.Records = <<>>

(* C17: affected-row accounting.  A write whose chunks and commit all      *)
(* succeed returns the sum of the affected-row counts the server reported  *)
(* for its chunks; a Create of n records with distinct identifiers, none   *)
(* of them stored, returns n, however the records are split into chunks.   *)
RECURSIVE SumAffected(_, _)
SumAffected(t, log) ==
    IF log = <<>> THEN 0
    ELSE LET res == ApplyStmt(t, ParseStmt(log[1].text, log[1].cols, log[1].groups),
                              log[1].cols, log[1].params, 1, log[1].groups)
         IN res.n + SumAffected(res.t, Tail(log))

NoConflict(t, values) ==
    /\ \A a, b \in 1..Len(values) : values[a][1] = values[b][1] => a = b
    /\ \A a \in 1..Len(values) : t[values[a][1]] = NoRow

C17_RowsAffected ==
    [][\A p \in Procs :
         LET f == frame[p]
             g == frame'[p]
         IN (IsWrite(f) /\ f.pc = "chunk" /\ g.pc = "done" /\ g.err = "nil")
            => /\ g.ret = SumAffected(table, g.log)
               /\ (f.op = "Create" /\ NoConflict(table, f.input.elems))
                    => g.ret = Len(f.input.elems)]_vars

\* A Create of two new records in two chunks has returned 2.
C17_Witness ==
    /\ frame[1].pc = "done" /\ frame[1].op = "Create" /\ frame[1].err = "nil"
    /\ Len(frame[1].input.elems) = 2 /\ Len(frame[1].log) = 2
    /\ frame[1].ret = 2

(* C18: schema extraction.  parseValue gives one (field name, column tag)  *)
(* pair per non-struct leaf field of the record type, in declaration       *)
(* order, the fields of a nested or embedded struct taking the place of    *)
(* the struct; the tag is the `field` tag, or the field name when there is *)
(* none; equal tags are all kept, and the column list of the statement     *)
(* names every tag, one column per leaf.                                   *)
RECURSIVE LeafCount(_)
LeafCount(v) ==
    IF v = <<>> THEN 0
    ELSE (IF Head(v).kind = "struct" THEN LeafCount(Head(v).sub) ELSE 1)
         + LeafCount(Tail(v))

\* The u-th leaf field of v, counting depth-first.
RECURSIVE NthLeaf(_, _)
NthLeaf(v, u) ==
    LET here == IF Head(v).kind = "struct" THEN LeafCount(Head(v).sub) ELSE 1
    IN IF u > here THEN NthLeaf(Tail(v), u - here)
       ELSE IF Head(v).kind = "struct" THEN NthLeaf(Head(v).sub, u)
       ELSE Head(v)

ColumnTag(field) == IF field.tag = "" THEN field.name ELSE field.tag

C18_Schema ==
    test.pc \in {"Sprintf", "end"}
    => LET out == test.out
           n == LeafCount(test.tp)
       IN /\ Len(out.fields) = n /\ Len(out.tags) = n
          /\ \A u \in 1..n :
               /\ out.fields[u] = NthLeaf(test.tp, u).name
               /\ out.tags[u] = ColumnTag(NthLeaf(test.tp, u))
          /\ \E verb \in {"insert ignore into ", "insert into "} :
               out.query.pre
                 = verb \o TableName \o "("
                     \o Join([u \in 1..n |-> ColumnTag(NthLeaf(test.tp, u))], ",")
                     \o ") values "

\* A type with an embedded struct before a leaf, two of the three leaves
\* with the same tag.
C18_Witness ==
    /\ test.pc = "end"
    /\ test.tp = <<Struct("key", TRUE, <<Leaf("Name", "name", "string"),
                                          Leaf("Age", "name", "int")>>),
                    Leaf("ID", "", "int")>>
    /\ test.out.fields = <<"Name", "Age", "ID">>
    /\ test.out.tags = <<"name", "name", "ID">>

(* C19: the chunks partition the input in order.  The parameter lists of   *)
(* the chunks a write has executed, concatenated in execution order, are   *)
(* the row-major flattening of the records written so far: every record    *)
(* once, in input order, the value of each of its leaf fields in           *)
(* descriptor order; every chunk but the last holds exactly chunkSize      *)
(* records.                                                                *)
RECURSIVE AllParams(_)
AllParams(log) ==
    IF log = <<>> THEN <<>> ELSE log[1].params \o AllParams(Tail(log))

\* The text bound for a leaf value: fmt.Sprintf("%v", value).
ValueText(kind, val) == IF kind = "int" THEN Itoa(val) ELSE val

C19_Partition ==
    \A p \in Procs :
        LET f == frame[p]
            m == LeafCount(f.input.tp)
            bound == Min(f.i, Len(f.input.elems))
        IN (IsWrite(f) /\ GoodInput(f) /\ f.tx # "none")
           => /\ Len(AllParams(f.log)) = bound * m
              /\ \A j \in 1..bound, u \in 1..m :
                   AllParams(f.log)[(j - 1) * m + u]
                     = ValueText(NthLeaf(f.input.tp, u).kind, f.input.elems[j][u])
              /\ \A c \in 1..Len(f.log) :
                   /\ c < Len(f.log) => f.log[c].groups = f.step
                   /\ f.log[c].groups \in 1..f.step

(* C20: statement shape.  For k rows over the m columns of a record type   *)
(* the text is the template of the call with only the list of placeholder  *)
(* groups filled in: k groups of m positional markers, m being also the    *)
(* number of values bound per row; Create gives                            *)
(* `insert ignore into T(cols) values ...;` with no update clause, Update  *)
(* gives `insert into T(cols) values ... on duplicate key update           *)
(* c=values(c),...;` with one assignment for every listed column.          *)
C20_StatementShape ==
    test.pc = "end"
    => LET cols == test.out.tags
           k == test.groups
       IN /\ Len(test.out.fields) = Len(cols)
          /\ test.mode = "Create"
               => test.text = InsertText("insert ignore into ", cols, k, ";")
          /\ test.mode = "Update"
               => test.text = InsertText("insert into ", cols, k,
                                         OnDuplicateText(cols) \o ";")

\* The Update statement for two rows of type T.
C20_Witness ==
    /\ test.pc = "end" /\ test.mode = "Update" /\ test.groups = 2
    /\ test.tp = TypeT
    /\ test.text = "insert into user(id,name) values (?,?),(?,?) on duplicate key update id=values(id),name=values(name);"

(* C21: Read follows the flattened field order.  For a record type with    *)
(* nested or embedded structs too, Read called with the columns of the     *)
(* write path (the tags of the flattened fields, depth first) scans every  *)
(* row into one target per flattened column: when the backend has not      *)
(* failed it returns nil, and every record has one value per leaf field,   *)
(* the i-th being the i-th selected column.                                *)
C21_FlattenedScan ==
    \A p \in Procs :
        LET f == frame[p]
            leaves == Leaves(f.input.tp)
        IN (f.op = "Read" /\ f.pc = "done" /\ ~f.fault
              /\ f.cols = tagsOf(f.input.tp) /\ Len(f.rs) > 0)
           => /\ f.err = "nil"
              /\ Len(model.Records) = Len(f.rs)
              /\ \A k \in 1..Len(model.Records) :
                   /\ Len(model.Records[k]) = Len(leaves)
                   /\ \A c \in 1..Len(leaves) :
                        model.Records[k][c] = Decoded(f.rs[k][c])

(* C22: termination of write.  For a non-empty slice of any record type    *)
(* and an accepted BatchSize, write computes a chunk size of at least 1    *)
(* and its loop ends after at most one execution per record, the index     *)
(* advancing by the chunk size with every execution; the computation of    *)
(* the chunk size itself never halts the call, for a record type with no   *)
(* column either.                                                          *)
C22_WriteTerminates ==
    \A p \in Procs :
        LET f == frame[p]
        IN (IsWrite(f) /\ GoodInput(f) /\ f.conn # 0
              /\ f.pc \in {"chunk", "exec", "done"})
           => /\ f.step >= 1
              /\ Len(f.log) <= Len(f.input.elems)
              /\ f.i >= Len(f.log) * f.step
              /\ (f.pc = "done" /\ f.err = "panic") => f.tx = "nil"

(* C23: failure to open the transaction.  When conn.Begin() has failed,    *)
(* Create and Update return a non-nil error: the call does not panic and   *)
(* neither prepares nor executes a statement.                              *)
C23_BeginFailure ==
    \A p \in Procs :
        LET f == frame[p]
        IN (IsWrite(f) /\ f.pc = "done" /\ f.tx = "nil")
           => /\ f.err = "error"
              /\ f.log = <<>>
              /\ f.sent = 1

(* C24: a Read that fails before scanning changes nothing.  A step of Read *)
(* taken before its query has succeeded (getConn, sql.Open, conn.Query)    *)
(* leaves Model.Records and the raw rows as they are, and when it ends the *)
(* call the error is non-nil and reported, not a panic; Records and rows   *)
(* of an earlier Read change only in the steps after a query that has      *)
(* succeeded: the two stores that empty them and the scan loop.            *)
C24_FailedReadKeeps ==
    [][\A p \in Procs :
         LET f == frame[p]
             g == frame'[p]
         IN /\ (f.op = "Read" /\ f.pc \in {"getConn", "open", "body"})
                 => /\ model'.Records = model.Records
                    /\ model'.rows = model.rows
                    /\ g.pc = "done" => (g.err = "error" /\ g.rs = <<>>)
            /\ (f.op = "Read" /\ (model'.Records # model.Records
                                    \/ model'.rows # model.rows))
                 => /\ f.sent = 1
                    /\ f.pc \in {"clear rows", "clear Records", "rows", "records"}]_vars

\* The query of a Read has failed on a Model that holds the record of an
\* earlier Read.
C24_Witness ==
    /\ frame[1].op = "Read" /\ frame[1].pc = "done" /\ frame[1].err = "error"
    /\ frame[1].sent = 1 /\ frame[1].rs = <<>>
    /\ frame[1].before = 1 /\ Len(model.Records) = 1 /\ Len(model.rows) = 1
====
